---- MODULE Spec2Model ----
(***************************************************************************)
(* A model of pints.SMCSampler (src/pints/_sequential/__init__.py) and of  *)
(* pints.LogPosterior.__call__ (src/pints/_log_pdfs.py).                    *)
(*                                                                         *)
(* Floating point numbers are modelled as exact rationals extended with    *)
(* -inf, +inf and nan.  Temperatures are held in units of 1/Scale.         *)
(***************************************************************************)
EXTENDS Integers, Sequences, FiniteSets, TLC

(***************************************************************************)
(* Bounds of the model.                                                    *)
(***************************************************************************)
\* Size of the population the constructor creates.  The source sets 1000
\* (line 97); the model keeps the population small.
DefaultParticles == 2
\* Longest explicit schedule handed to set_temperature_schedule.
MaxScheduleLen == 3
\* Number of setter calls in one behaviour.
MaxCalls == 3
\* Number of calls in one behaviour of the configuration calls alone.
MaxSetterCalls == 2
\* Number of _new_weights calls in one behaviour.
MaxUpdates == 2
\* Largest numerator magnitude the cached log-pdf may take in the model.
MaxMagnitude == 100

(***************************************************************************)
(* Program constants.                                                      *)
(***************************************************************************)
\* Temperatures are multiples of 1/Scale: the smallest generated temperature
\* is exp(log(0.0001)) = 1/10000.
Scale == 10000
DefaultSchedule == 10
MinParticles == 10
MinTemperatures == 2
MinKernelSamples == 1
DefaultKernelSamples == 1

(***************************************************************************)
(* Extended rationals: the model of Python / numpy floats.                 *)
(***************************************************************************)
Abs(n) == IF n < 0 THEN -n ELSE n

RECURSIVE GCD(_, _)
GCD(a, b) == IF b = 0 THEN a ELSE GCD(b, a % b)

Rat(n, d) ==
    LET g == GCD(Abs(n), Abs(d))
        s == IF d < 0 THEN -1 ELSE 1
    IN  [k |-> "fin", n |-> s * (n \div g), d |-> s * (d \div g)]

Fin(n) == [k |-> "fin", n |-> n, d |-> 1]
NInf == [k |-> "ninf", n |-> 0, d |-> 1]
PInf == [k |-> "pinf", n |-> 0, d |-> 1]
NaN == [k |-> "nan", n |-> 0, d |-> 1]

IsFinite(a) == a.k = "fin"

\* sign of a value that is not nan: -1, 0 or 1
Sign(a) ==
    CASE a.k = "ninf" -> -1
      [] a.k = "pinf" -> 1
      [] OTHER -> IF a.n < 0 THEN -1 ELSE IF a.n = 0 THEN 0 ELSE 1

VNeg(a) ==
    CASE a.k = "fin" -> [k |-> "fin", n |-> -a.n, d |-> a.d]
      [] a.k = "ninf" -> PInf
      [] a.k = "pinf" -> NInf
      [] OTHER -> NaN

VAdd(a, b) ==
    CASE a.k = "nan" \/ b.k = "nan" -> NaN
      [] a.k = "fin" /\ b.k = "fin" ->
            LET g == GCD(a.d, b.d)
            IN  Rat(a.n * (b.d \div g) + b.n * (a.d \div g), a.d * (b.d \div g))
      [] a.k = "fin" -> b
      [] b.k = "fin" -> a
      [] a.k = b.k -> a
      [] OTHER -> NaN

VSub(a, b) == VAdd(a, VNeg(b))

VMul(a, b) ==
    CASE a.k = "nan" \/ b.k = "nan" -> NaN
      [] a.k = "fin" /\ b.k = "fin" ->
            LET g1 == GCD(Abs(a.n), b.d)
                g2 == GCD(Abs(b.n), a.d)
            IN  Rat((a.n \div g1) * (b.n \div g2), (a.d \div g2) * (b.d \div g1))
      [] Sign(a) = 0 \/ Sign(b) = 0 -> NaN
      [] Sign(a) = Sign(b) -> PInf
      [] OTHER -> NInf

\* 1.0 / t for a numpy float t >= 0: division by zero gives +inf
VInv(a) ==
    CASE a.k = "nan" -> NaN
      [] a.k = "fin" -> IF a.n = 0 THEN PInf ELSE Rat(a.d, a.n)
      [] OTHER -> Fin(0)

VLess(a, b) ==
    CASE a.k = "nan" \/ b.k = "nan" -> FALSE
      [] a.k = "fin" /\ b.k = "fin" -> a.n * b.d < b.n * a.d
      [] a.k = "ninf" -> b.k # "ninf"
      [] a.k = "pinf" -> FALSE
      [] OTHER -> b.k = "pinf"

\* a temperature held in units of 1/Scale, as a float
Temp(t) == Rat(t, Scale)
One == Fin(1)

(***************************************************************************)
(* The probability models handed to the constructor.  The parameter space  *)
(* is the set Points; log-densities are small tables over it.              *)
(***************************************************************************)
Points == 0 .. 2

GaussianLogPrior == [x \in Points |-> Fin(-4 * x)]
\* pints.UniformLogPrior(-100, 100): point 2 lies outside the box
UniformLogPrior == [x \in Points |-> IF x = 2 THEN NInf ELSE Fin(-4)]
PeakedLogLikelihood == [x \in Points |-> IF x = 1 THEN Fin(0) ELSE Fin(-4)]
FlatLogLikelihood == [x \in Points |-> Fin(0)]

\* LogPosterior.__call__
LogPosteriorCall(log_prior, log_likelihood, x) ==
    IF log_prior[x] = NInf
    THEN NInf
    ELSE VAdd(log_prior[x], log_likelihood[x])

\* is_posterior: isinstance(log_posterior, pints.LogPosterior)
Models ==
    { [name |-> "gaussian", is_posterior |-> TRUE,
       prior |-> GaussianLogPrior, likelihood |-> PeakedLogLikelihood],
      [name |-> "prior_only", is_posterior |-> TRUE,
       prior |-> GaussianLogPrior, likelihood |-> FlatLogLikelihood],
      [name |-> "bounded_prior_only", is_posterior |-> TRUE,
       prior |-> UniformLogPrior, likelihood |-> FlatLogLikelihood],
      [name |-> "bare_pdf", is_posterior |-> FALSE,
       prior |-> UniformLogPrior, likelihood |-> PeakedLogLikelihood] }

\* self._log_posterior(x)
log_posterior(m, x) ==
    IF m.is_posterior
    THEN LogPosteriorCall(m.prior, m.likelihood, x)
    ELSE m.likelihood[x]

\* self._log_prior(x): the posterior's prior, or UniformLogPrior(-100, 100)
log_prior(m, x) ==
    IF m.is_posterior THEN m.prior[x] ELSE UniformLogPrior[x]

(***************************************************************************)
(* Temperature schedules.                                                  *)
(***************************************************************************)
\* np.exp(np.linspace(np.log(0.0001), 0, K)) in units of 1/Scale, i.e.
\* 10 ^ (4 (i - 1) / (K - 1)); entries that are not integers are rounded.
LogSpaced(K) ==
    CASE K = 2 -> <<1, 10000>>
      [] K = 3 -> <<1, 100, 10000>>
      [] K = 4 -> <<1, 22, 464, 10000>>
      [] K = 5 -> <<1, 10, 100, 1000, 10000>>
      [] K = 10 -> <<1, 3, 8, 22, 60, 167, 464, 1292, 3594, 10000>>

\* integer arguments offered to set_temperature_schedule
ScheduleInts == {0, 1, 2, 3, 10}
\* entries of explicit schedules: -0.25, 0, 0.5, 1 and 1.25
TempInputs == {-2500, 0, 5000, 10000, 12500}
ScheduleSeqs == UNION {[1 .. n -> TempInputs] : n \in 0 .. MaxScheduleLen}
ScheduleArgs ==
    {[scalar |-> TRUE, int |-> K, seq |-> <<>>] : K \in ScheduleInts}
    \cup {[scalar |-> FALSE, int |-> 0, seq |-> s] : s \in ScheduleSeqs}

\* ScheduleError without the check of the upper end of the range
ScheduleErrorNoUpperCheck(arg) ==
    IF arg.scalar
    THEN IF arg.int < MinTemperatures THEN "ValueError" ELSE "none"
    ELSE CASE Len(arg.seq) < MinTemperatures -> "ValueError"
           [] arg.seq[1] # 0 -> "ValueError"
           [] \E n \in 1 .. Len(arg.seq) : arg.seq[n] < 0 -> "ValueError"
           [] OTHER -> "none"

\* the first failing check of set_temperature_schedule, or "none"
ScheduleError(arg) ==
    IF arg.scalar
    THEN IF arg.int < MinTemperatures THEN "ValueError" ELSE "none"
    ELSE CASE Len(arg.seq) < MinTemperatures -> "ValueError"
           [] arg.seq[1] # 0 -> "ValueError"
           [] \E n \in 1 .. Len(arg.seq) : arg.seq[n] < 0 -> "ValueError"
           [] \E n \in 1 .. Len(arg.seq) : arg.seq[n] > Scale -> "ValueError"
           [] OTHER -> "none"

\* the schedule set_temperature_schedule stores for an accepted argument
ScheduleOf(arg) == IF arg.scalar THEN LogSpaced(arg.int) ELSE arg.seq

(***************************************************************************)
(* The weight update.  Log-densities are in units of ln 2.  A quantity y   *)
(* of the log domain is held as e^y, a value in [0, +inf]: y = -inf is 0,  *)
(* sums of logs are products and logsumexp is a sum.                       *)
(***************************************************************************)
RECURSIVE Pow2(_)
Pow2(e) == IF e = 0 THEN 1 ELSE 2 * Pow2(e - 1)

IsInteger(a) == a.k # "fin" \/ a.d = 1

\* e^y for y a whole number of ln 2, -inf, +inf or nan
ExpOf(y) ==
    CASE y.k = "nan" -> NaN
      [] y.k = "ninf" -> Fin(0)
      [] y.k = "pinf" -> PInf
      [] OTHER -> IF y.n >= 0 THEN Fin(Pow2(y.n)) ELSE Rat(1, Pow2(-y.n))

\* np.log(w), held as e^(log w): nan for w < 0, -inf for w = 0
LogOf(w) == IF w.k = "ninf" \/ (w.k = "fin" /\ w.n < 0) THEN NaN ELSE w

\* a - b in the log domain
LogSub(a, b) == VMul(a, VInv(b))

RECURSIVE VSum(_, _)
VSum(f, n) == IF n = 0 THEN Fin(0) ELSE VAdd(VSum(f, n - 1), f[n])

\* scipy.special.logsumexp
logsumexp(a, n) == VSum(a, n)

tempered_distribution(m, x, beta) ==
    VAdd(VMul(beta, log_posterior(m, x)),
         VMul(VSub(One, beta), log_prior(m, x)))

w_tilde(m, x_old, x_new, beta_old, beta_new) ==
    VSub(tempered_distribution(m, x_old, beta_new),
         tempered_distribution(m, x_old, beta_old))

\* np.log(w_old) + w_tilde_value
new_weight(m, w_old, x_old, x_new, beta_old, beta_new) ==
    VMul(LogOf(w_old), ExpOf(w_tilde(m, x_old, x_new, beta_old, beta_new)))

\* np.exp(w_new - logsumexp(w_new))
new_weights(m, w_old, samples_old, samples_new, beta_old, beta_new) ==
    LET n == Len(w_old)
        w_new == [p \in 1 .. n |->
                     new_weight(m, w_old[p], samples_old[p], samples_new[p],
                                beta_old, beta_new)]
    IN  [p \in 1 .. n |-> LogSub(w_new[p], logsumexp(w_new, n))]

(***************************************************************************)
(* State of one SMCSampler.                                                *)
(***************************************************************************)
VARIABLES
    model,                \* the log_posterior given to the constructor
    schedule,             \* self._schedule, in units of 1/Scale
    particles,            \* self._particles
    samples,              \* self._samples
    samples_log_pdf,      \* self._samples_log_pdf
    weights,              \* self._weights
    ess_threshold,        \* self._ess_threshold
    resample_end_2_3,     \* self._resample_end_2_3
    kernel_samples,       \* self._kernel_samples
    log_to_screen,        \* self._log_to_screen
    pc,                   \* "idle", "running", "complete" or "failed"
    i,                    \* loop index of run() over the iterations
    j,                    \* loop index of run() over the particles
    current_temperature,  \* self._current_temperature
    log_Z,                \* self._log_Z
    w_args,               \* the arguments of the last _new_weights call
    w_ret,                \* what that call returned
    lastOp,               \* the name of the last call made
    lastArg,              \* the argument of that call
    raised,               \* the exception that call raised, or "none"
    calls                 \* number of calls made so far

config == <<schedule, particles, ess_threshold, resample_end_2_3,
            kernel_samples, log_to_screen>>
population == <<samples, samples_log_pdf, weights>>
runvars == <<pc, i, j, current_temperature, log_Z>>
wvars == <<w_args, w_ret>>
vars == <<model, config, population, runvars, wvars, lastOp, lastArg, raised,
          calls>>

NoArg == <<>>
\* InitialWeight with the first temperature of the schedule in place of
\* the second
InitialWeightFirstTemperature(m, sched, x) ==
    VSub(VAdd(VMul(Temp(sched[1]), log_posterior(m, x)),
              VMul(VSub(One, Temp(sched[1])), log_prior(m, x))),
         log_prior(m, x))

\* the weight _initialise gives to a particle at x
InitialWeight(m, sched, x) ==
    VSub(VAdd(VMul(Temp(sched[2]), log_posterior(m, x)),
              VMul(VSub(One, Temp(sched[2])), log_prior(m, x))),
         log_prior(m, x))

\* SMCSampler._initialise with the draw xs of np.random.multivariate_normal
Initialise(m, sched, n, xs) ==
    /\ samples' = xs
    /\ samples_log_pdf' = [p \in 1 .. n |-> log_posterior(m, xs[p])]
    /\ weights' = [p \in 1 .. n |-> InitialWeight(m, sched, xs[p])]

\* SMCSampler.__init__
Init ==
    /\ model \in Models
    /\ schedule = LogSpaced(DefaultSchedule)
    /\ particles = DefaultParticles
    /\ samples \in [1 .. DefaultParticles -> Points]
    /\ samples_log_pdf =
           [p \in 1 .. DefaultParticles |-> log_posterior(model, samples[p])]
    /\ weights =
           [p \in 1 .. DefaultParticles |->
               InitialWeight(model, LogSpaced(DefaultSchedule), samples[p])]
    /\ ess_threshold = Rat(DefaultParticles, 2)
    /\ resample_end_2_3 = TRUE
    /\ kernel_samples = DefaultKernelSamples
    /\ log_to_screen = TRUE
    /\ pc = "idle"
    /\ i = 0
    /\ j = 0
    /\ current_temperature = Fin(0)
    /\ log_Z = NaN
    /\ w_args = <<>>
    /\ w_ret = <<>>
    /\ lastOp = "__init__"
    /\ lastArg = NoArg
    /\ raised = "none"
    /\ calls = 0

\* a call is made by the driving code, which run() does not return to
\* before it ends
CanCall == pc # "running" /\ calls < MaxCalls

Called(name, arg, exception) ==
    /\ lastOp' = name
    /\ lastArg' = arg
    /\ raised' = exception
    /\ calls' = calls + 1

(***************************************************************************)
(* The setters.                                                            *)
(***************************************************************************)
ParticleArgs == {MinParticles - 1, MinParticles, MinParticles + 1}

set_particles(n) ==
    /\ CanCall
    /\ IF n < MinParticles
       THEN /\ Called("set_particles", n, "ValueError")
            /\ UNCHANGED population
       ELSE /\ Called("set_particles", n, "none")
            /\ \E xs \in [1 .. particles -> Points] :
                  Initialise(model, schedule, particles, xs)
    /\ UNCHANGED <<model, config, runvars, wvars>>

\* arguments of set_resample_end_2_3: booleans and the int 1
FlagArgs == {[type |-> "bool", val |-> TRUE], [type |-> "bool", val |-> FALSE],
             [type |-> "int", val |-> TRUE]}

set_resample_end_2_3(arg) ==
    /\ CanCall
    /\ IF arg.type # "bool"
       THEN /\ Called("set_resample_end_2_3", arg, "ValueError")
            /\ UNCHANGED resample_end_2_3
       ELSE /\ Called("set_resample_end_2_3", arg, "none")
            /\ resample_end_2_3' = arg.val
    /\ UNCHANGED <<model, schedule, particles, ess_threshold, kernel_samples,
                   log_to_screen, population, runvars, wvars>>

EssArgs == {Fin(-1), Fin(0), Fin(1), Fin(DefaultParticles),
            Fin(DefaultParticles + 1)}

\* set_ess_threshold storing its argument before checking it
set_ess_threshold_StoreFirst(t) ==
    /\ CanCall
    /\ ess_threshold' = t
    /\ IF VLess(Fin(particles), t) \/ VLess(t, Fin(0))
       THEN Called("set_ess_threshold", t, "ValueError")
       ELSE Called("set_ess_threshold", t, "none")
    /\ UNCHANGED <<model, schedule, particles, resample_end_2_3,
                   kernel_samples, log_to_screen, population, runvars, wvars>>

set_ess_threshold(t) ==
    /\ CanCall
    /\ IF VLess(Fin(particles), t) \/ VLess(t, Fin(0))
       THEN /\ Called("set_ess_threshold", t, "ValueError")
            /\ UNCHANGED ess_threshold
       ELSE /\ Called("set_ess_threshold", t, "none")
            /\ ess_threshold' = t
    /\ UNCHANGED <<model, schedule, particles, resample_end_2_3,
                   kernel_samples, log_to_screen, population, runvars, wvars>>

\* arguments of set_kernel_samples: the ints 0, 1, 2 and the float 1.5
KernelArgs == {[type |-> "int", val |-> Fin(0)], [type |-> "int", val |-> Fin(1)],
               [type |-> "int", val |-> Fin(2)],
               [type |-> "float", val |-> Rat(3, 2)]}

set_kernel_samples(arg) ==
    /\ CanCall
    /\ IF VLess(arg.val, Fin(MinKernelSamples)) \/ arg.type # "int"
       THEN /\ Called("set_kernel_samples", arg, "ValueError")
            /\ UNCHANGED kernel_samples
       ELSE /\ Called("set_kernel_samples", arg, "none")
            /\ kernel_samples' = arg.val.n
    /\ UNCHANGED <<model, schedule, particles, ess_threshold,
                   resample_end_2_3, log_to_screen, population, runvars, wvars>>

set_temperature_schedule(arg) ==
    /\ CanCall
    /\ Called("set_temperature_schedule", arg, ScheduleError(arg))
    /\ IF ScheduleError(arg) = "none"
       THEN schedule' = ScheduleOf(arg)
       ELSE UNCHANGED schedule
    /\ UNCHANGED <<model, particles, ess_threshold, resample_end_2_3,
                   kernel_samples, log_to_screen, population, runvars, wvars>>

\* the logging switch read by run() (self._log_to_screen)
set_log_to_screen(enabled) ==
    /\ CanCall
    /\ Called("set_log_to_screen", enabled, "none")
    /\ log_to_screen' = enabled
    /\ UNCHANGED <<model, schedule, particles, ess_threshold,
                   resample_end_2_3, kernel_samples, population, runvars, wvars>>

(***************************************************************************)
(* run().  The names run() uses without defining them in SMCSampler        *)
(* (self._iterations, self._log_likelihood, tell, marginal_log_likelihood) *)
(* are modelled from the specification of the sampler.                     *)
(***************************************************************************)
\* self._iterations: the schedule index advances from 1 to T
iterations(sched) == Len(sched) - 1

\* evaluator.evaluate([x])[0]: the posterior log-density of the proposal
evaluate(m, x) == log_posterior(m, x)

\* beta * fx + (1 - beta) * log_prior_pdf, the value handed to tell()
Tempered(beta, fx, log_prior_pdf) ==
    VAdd(VMul(beta, fx), VMul(VSub(One, beta), log_prior_pdf))

\* tell(): the kernel's accept / reject rule.  On acceptance the chain moves
\* to the proposal and self._current_log_pdf becomes the value told; on
\* rejection both stay.  A value that is not finite is never accepted.
tell(accept, current, current_log_pdf, proposed, fx) ==
    IF accept /\ IsFinite(fx)
    THEN [x |-> proposed, log_pdf |-> fx]
    ELSE [x |-> current, log_pdf |-> current_log_pdf]

\* a finite float whose value the model does not track
Untracked == [k |-> "other", n |-> 0, d |-> 1]

\* marginal_log_likelihood(): logsumexp(log w) - log(n_particles)
marginal_log_likelihood(w, n) ==
    CASE \E p \in 1 .. n : w[p] = NaN \/ w[p] = PInf -> NaN
      [] \A p \in 1 .. n : w[p] = w[1] -> w[1]
      [] OTHER -> Untracked

\* the cached value stays within the range the model computes in
InRange(v) == v.k # "fin" \/ (Abs(v.n) <= MaxMagnitude /\ v.d <= Scale)

\* lines 233-282: nothing checks whether a run was made before
RunStart ==
    /\ CanCall
    /\ Called("run", NoArg, "none")
    /\ pc' = "running"
    /\ i' = 0
    /\ j' = 0
    /\ current_temperature' = Temp(schedule[2])
    /\ UNCHANGED <<model, config, population, log_Z, wvars>>

\* lines 284-307: one pass of the loop over the particles
RunParticle ==
    /\ pc = "running"
    /\ i < iterations(schedule)
    /\ j < particles
    /\ \E proposed \in Points, accept \in BOOLEAN :
          LET fx == evaluate(model, proposed)
              log_prior_pdf == log_prior(model, proposed)
              told == tell(accept, samples[j + 1], samples_log_pdf[j + 1],
                           proposed,
                           Tempered(current_temperature, fx, log_prior_pdf))
          IN  /\ InRange(told.log_pdf)
              /\ samples' = [samples EXCEPT ![j + 1] = told.x]
              /\ samples_log_pdf' =
                     [samples_log_pdf EXCEPT ![j + 1] =
                         VMul(VInv(current_temperature),
                              VSub(told.log_pdf,
                                   VMul(VSub(One, current_temperature),
                                        log_prior_pdf)))]
    /\ j' = j + 1
    /\ UNCHANGED <<model, config, weights, pc, i, current_temperature, log_Z,
                   wvars, lastOp, lastArg, raised, calls>>

\* lines 309-319 and the next pass of line 282: with logging on, i_message
\* is read before it is assigned
RunEndIteration ==
    /\ pc = "running"
    /\ i < iterations(schedule)
    /\ j = particles
    /\ IF log_to_screen
       THEN /\ pc' = "failed"
            /\ raised' = "UnboundLocalError"
            /\ UNCHANGED <<i, j, current_temperature>>
       ELSE /\ i' = i + 1
            /\ j' = 0
            /\ current_temperature' =
                   IF i + 1 < iterations(schedule)
                   THEN Temp(schedule[i + 3])
                   ELSE current_temperature
            /\ UNCHANGED <<pc, raised>>
    /\ UNCHANGED <<model, config, population, log_Z, wvars, lastOp, lastArg,
                   calls>>

\* lines 321-329
RunFinish ==
    /\ pc = "running"
    /\ i = iterations(schedule)
    /\ log_Z' = marginal_log_likelihood(weights, particles)
    /\ pc' = "complete"
    /\ UNCHANGED <<model, config, population, i, j, current_temperature,
                   wvars, lastOp, lastArg, raised, calls>>

(***************************************************************************)
(* A call of _new_weights on the current population.                       *)
(***************************************************************************)
\* normalised weight vectors with entries that are multiples of 1/2
WeightEntries == {Rat(q, 2) : q \in 0 .. 2}
WeightArgs ==
    {w \in [1 .. DefaultParticles -> WeightEntries] :
        VSum(w, DefaultParticles) = One}
\* the temperatures 0, 0.5 and 1
BetaArgs == {0, 5000, 10000}

call_new_weights(w_old, beta_old, beta_new) ==
    /\ CanCall
    /\ calls < MaxUpdates
    /\ \A p \in 1 .. particles :
          IsInteger(w_tilde(model, samples[p], samples[p],
                            Temp(beta_old), Temp(beta_new)))
    /\ Called("_new_weights", NoArg, "none")
    /\ w_args' = [w_old |-> w_old, beta_old |-> beta_old, beta_new |-> beta_new]
    /\ w_ret' = new_weights(model, w_old, samples, samples,
                            Temp(beta_old), Temp(beta_new))
    /\ UNCHANGED <<model, config, population, runvars>>

\* the weights handed in: a normalised vector or the last vector returned
WeightInputs == WeightArgs \cup (IF w_ret = <<>> THEN {} ELSE {w_ret})

WeightNext ==
    \E w_old \in WeightInputs, beta_old \in BetaArgs, beta_new \in BetaArgs :
        call_new_weights(w_old, beta_old, beta_new)

WeightSpec == Init /\ [][WeightNext]_vars

(***************************************************************************)
(* The life of a sampler: the driving code configures it and runs it.      *)
(***************************************************************************)
\* the arguments the driving code configures a run with
DriverParticleArgs == {MinParticles}
DriverFlagArgs == {arg \in FlagArgs : arg.type = "bool"}
DriverEssArgs == {Fin(DefaultParticles)}
DriverKernelArgs == {arg \in KernelArgs : arg.val = Fin(2)}
DriverScheduleArgs ==
    {arg \in ScheduleArgs :
        \/ arg.scalar /\ arg.int = 2
        \/ ~arg.scalar /\ arg.seq \in {<<0, 10000>>, <<0, 5000, 10000>>}}

Next ==
    \/ \E n \in DriverParticleArgs : set_particles(n)
    \/ \E arg \in DriverFlagArgs : set_resample_end_2_3(arg)
    \/ \E t \in DriverEssArgs : set_ess_threshold(t)
    \/ \E arg \in DriverKernelArgs : set_kernel_samples(arg)
    \/ \E arg \in DriverScheduleArgs : set_temperature_schedule(arg)
    \/ \E enabled \in BOOLEAN : set_log_to_screen(enabled)
    \/ RunStart
    \/ RunParticle
    \/ RunEndIteration
    \/ RunFinish

Spec == Init /\ [][Next]_vars

(***************************************************************************)
(* The configuration calls alone, over all the arguments of the model.     *)
(***************************************************************************)
MoreSetterCalls == calls < MaxSetterCalls

SetterNext ==
    \/ \E n \in ParticleArgs : MoreSetterCalls /\ set_particles(n)
    \/ \E arg \in FlagArgs : MoreSetterCalls /\ set_resample_end_2_3(arg)
    \/ \E t \in EssArgs : MoreSetterCalls /\ set_ess_threshold(t)
    \/ \E arg \in KernelArgs : MoreSetterCalls /\ set_kernel_samples(arg)
    \/ \E arg \in ScheduleArgs :
          MoreSetterCalls /\ set_temperature_schedule(arg)

SetterSpec == Init /\ [][SetterNext]_vars

(***************************************************************************)
(* One call of set_temperature_schedule on a new sampler, over all the     *)
(* arguments of the model.                                                 *)
(***************************************************************************)
FirstCall == lastOp = "__init__"

ScheduleNext ==
    \E arg \in ScheduleArgs : FirstCall /\ set_temperature_schedule(arg)

ScheduleSpec == Init /\ [][ScheduleNext]_vars

(***************************************************************************)
(* The configuration of a new sampler: at most one call of                 *)
(* set_temperature_schedule, over all the arguments of the model, and at   *)
(* most one call of another setter, over all its arguments, on the new     *)
(* sampler or after the driving code stored one of its schedules.          *)
(***************************************************************************)
BeforeOtherSetters ==
    \/ FirstCall
    \/ lastOp = "set_temperature_schedule" /\ lastArg \in DriverScheduleArgs

ConfigNext ==
    \/ \E arg \in ScheduleArgs : FirstCall /\ set_temperature_schedule(arg)
    \/ \E n \in ParticleArgs : BeforeOtherSetters /\ set_particles(n)
    \/ \E arg \in FlagArgs : BeforeOtherSetters /\ set_resample_end_2_3(arg)
    \/ \E t \in EssArgs : BeforeOtherSetters /\ set_ess_threshold(t)
    \/ \E arg \in KernelArgs : BeforeOtherSetters /\ set_kernel_samples(arg)

ConfigSpec == Init /\ [][ConfigNext]_vars

(***************************************************************************)
(* The claims.                                                             *)
(***************************************************************************)
AllEqual(w) == \A p \in DOMAIN w : w[p] = w[1]

C2_StoredScheduleValid ==
    /\ schedule[1] = 0
    /\ schedule[Len(schedule)] = Scale
    /\ \A n \in 1 .. Len(schedule) - 1 : schedule[n] <= schedule[n + 1]

\* an argument the contract of set_temperature_schedule rules out
InvalidScheduleArg(arg) ==
    IF arg.scalar
    THEN arg.int < 2
    ELSE \/ Len(arg.seq) < 2
         \/ arg.seq[1] # 0
         \/ \E n \in 1 .. Len(arg.seq) : arg.seq[n] < 0 \/ arg.seq[n] > Scale

\* C3: set_temperature_schedule raises for an integer below 2, for a
\* sequence of fewer than 2 entries, for a first entry other than 0 and for
\* any entry below 0 or above 1.
C3_InvalidScheduleRaises ==
    (lastOp = "set_temperature_schedule" /\ InvalidScheduleArg(lastArg))
        => raised = "ValueError"

C3_Witness ==
    /\ lastOp = "set_temperature_schedule"
    /\ ~lastArg.scalar
    /\ Len(lastArg.seq) = 3
    /\ lastArg.seq[1] = 0
    /\ lastArg.seq[3] > Scale
    /\ raised = "ValueError"

\* C4: set_particles(n) raises for every n <= 10 and accepts every n > 10.
C4_TenParticlesRejected ==
    lastOp = "set_particles" => (raised = "ValueError" <=> lastArg <= 10)

\* C5: the ESS threshold starts at n_particles / 2, and set_ess_threshold
\* accepts t exactly when 0 < t <= n_particles.
C5_EssThresholdRange ==
    /\ lastOp = "__init__" => ess_threshold = Rat(particles, 2)
    /\ lastOp = "set_ess_threshold" =>
          (raised = "none" <=>
              (VLess(Fin(0), lastArg) /\ ~VLess(Fin(particles), lastArg)))

\* C6: the weights a weight update returns are all non-negative and sum
\* to 1 over the particles.
C6_WeightsNormalised ==
    lastOp = "_new_weights" =>
        /\ \A p \in 1 .. particles : IsFinite(w_ret[p]) /\ w_ret[p].n >= 0
        /\ VSum(w_ret, particles) = One

\* the normalised weights exp(w - logsumexp(w)) of log-weights w that are
\* whole numbers of ln 2
Normalised(w, n) ==
    LET e == [p \in 1 .. n |-> ExpOf(w[p])]
    IN  [p \in 1 .. n |-> LogSub(e[p], logsumexp(e, n))]

\* ESS = 1 / sum of the squared normalised weights
ESS(w, n) ==
    LET nw == Normalised(w, n)
    IN  VInv(VSum([p \in 1 .. n |-> VMul(nw[p], nw[p])], n))

\* the ESS of the population is below the threshold: computed where the
\* log-weights are whole numbers of ln 2, and otherwise known for weights
\* that are not all equal, whose ESS is below n
EssBelowThreshold ==
    /\ \A p \in 1 .. particles : IsFinite(weights[p])
    /\ IF \A p \in 1 .. particles : IsInteger(weights[p])
       THEN VLess(ESS(weights, particles), ess_threshold)
       ELSE ~AllEqual(weights) /\ ~VLess(ess_threshold, Fin(particles))

PosteriorEqualsPrior(m) ==
    \A x \in Points : log_posterior(m, x) = log_prior(m, x)

\* C9: for a model whose posterior equals its prior everywhere, every
\* incremental log-weight of every schedule step is 0, the weights stay
\* uniform and the log-evidence of a completed run is 0.
C9_PriorOnlyModelHasZeroWeights ==
    PosteriorEqualsPrior(model) =>
        /\ \A p \in 1 .. particles : weights[p] = Fin(0)
        /\ \A p \in 1 .. particles, t \in 1 .. Len(schedule) - 1 :
              w_tilde(model, samples[p], samples[p],
                      Temp(schedule[t]), Temp(schedule[t + 1])) = Fin(0)
        /\ pc = "complete" => log_Z = Fin(0)

\* the posterior or the prior log-density of particle p is not finite
NonFiniteParticle(p) ==
    \/ ~IsFinite(log_posterior(model, samples[p]))
    \/ ~IsFinite(log_prior(model, samples[p]))

\* C11: a weight update gives a particle whose posterior or prior
\* log-density is not finite the normalised weight 0 and leaves the weights
\* of the other particles finite; it fails with an error only when every
\* particle of the step is non-finite.
C11_NonFiniteParticleGetsZeroWeight ==
    lastOp = "_new_weights" =>
        IF \A p \in 1 .. particles : NonFiniteParticle(p)
        THEN raised # "none"
        ELSE /\ raised = "none"
             /\ \A p \in 1 .. particles :
                   IF NonFiniteParticle(p)
                   THEN w_ret[p] = Fin(0)
                   ELSE IsFinite(w_ret[p])

\* the weights were last written by _initialise and the schedule has not
\* been replaced since
JustInitialised ==
    \/ lastOp = "__init__"
    \/ lastOp = "set_particles" /\ raised = "none"

\* C12 as stated: initialisation sets every log-weight to
\* beta_1 * logL(x) + (1 - beta_1) * logPrior(x) - logPrior(x) with logL the
\* log-likelihood alone, which equals target(x, beta_1) - target(x, 0).
C12_InitialWeightUsesLikelihood ==
    (JustInitialised /\ model.is_posterior) =>
        \A p \in 1 .. particles :
            LET x == samples[p]
                beta_1 == Temp(schedule[2])
            IN  /\ weights[p] =
                       VSub(VAdd(VMul(beta_1, model.likelihood[x]),
                                 VMul(VSub(One, beta_1), log_prior(model, x))),
                            log_prior(model, x))
                /\ weights[p] = w_tilde(model, x, x, Fin(0), beta_1)

\* C12 amended: initialisation sets every log-weight to
\* beta_1 * logPost(x) + (1 - beta_1) * logPrior(x) - logPrior(x) with logPost
\* the log-posterior the sampler was given and beta_1 the second entry of the
\* schedule stored at that time, which equals target(x, beta_1) - target(x, 0)
\* and, for a LogPosterior with a finite prior at x, beta_1 * logL(x).
C12_InitialWeightUsesPosterior ==
    JustInitialised =>
        \A p \in 1 .. particles :
            LET x == samples[p]
                beta_1 == Temp(schedule[2])
            IN  /\ weights[p] =
                       VSub(VAdd(VMul(beta_1, log_posterior(model, x)),
                                 VMul(VSub(One, beta_1), log_prior(model, x))),
                            log_prior(model, x))
                /\ weights[p] = w_tilde(model, x, x, Fin(0), beta_1)
                /\ (model.is_posterior /\ IsFinite(log_prior(model, x)))
                      => weights[p] = VMul(beta_1, model.likelihood[x])

C12_Witness ==
    /\ lastOp = "set_particles"
    /\ raised = "none"
    /\ schedule = <<0, 5000, 10000>>
    /\ model.name = "gaussian"
    /\ samples[1] = 2
    /\ weights[1] = Fin(-2)

\* C13: the weight update computes for each particle
\* log(w_old) + target(x_old, beta_new) - target(x_old, beta_old) with
\* target(x, beta) = beta * posterior(x) + (1 - beta) * prior(x); the result
\* does not depend on the new positions; and with beta_new = beta_old a
\* normalised weight vector is returned unchanged.
C13_WeightUpdateFormula ==
    lastOp = "_new_weights" =>
        LET beta_old == Temp(w_args.beta_old)
            beta_new == Temp(w_args.beta_new)
        IN  /\ \A p \in 1 .. particles :
                  new_weight(model, w_args.w_old[p], samples[p], samples[p],
                             beta_old, beta_new)
                      = VMul(LogOf(w_args.w_old[p]),
                             ExpOf(VSub(
                                 tempered_distribution(model, samples[p], beta_new),
                                 tempered_distribution(model, samples[p], beta_old))))
            /\ \A xs \in [1 .. particles -> Points] :
                  new_weights(model, w_args.w_old, samples, xs,
                              beta_old, beta_new) = w_ret
            /\ (w_args.beta_new = w_args.beta_old /\ w_args.w_old \in WeightArgs)
                  => w_ret = w_args.w_old

AcceptedParticles ==
    IF lastOp = "set_particles" /\ raised = "none"
    THEN lastArg
    ELSE particles

\* C17: the numbers of positions, of cached log-densities and of weights are
\* all equal to the particle count last accepted by set_particles (the
\* default if it was never called): after set_particles(n) succeeds the
\* population has exactly n particles.
C17_PopulationHasAcceptedSize ==
    /\ particles = AcceptedParticles
    /\ DOMAIN samples = 1 .. AcceptedParticles
    /\ DOMAIN samples_log_pdf = 1 .. AcceptedParticles
    /\ DOMAIN weights = 1 .. AcceptedParticles

\* C18: before run() starts, whatever calls of set_temperature_schedule and
\* set_particles were made, the stored weight of every particle is the
\* initial weight for the second temperature of the stored schedule.
C18_WeightsFollowStoredSchedule ==
    pc = "idle" =>
        \A p \in 1 .. particles :
            weights[p] =
                w_tilde(model, samples[p], samples[p],
                        Fin(0), Temp(schedule[2]))

\* C19: a setter call that raises leaves the sampler as it was: the stored
\* schedule, the particle count, the ESS threshold, the kernel-sample
\* count, the resample flag, the positions, the cached log-densities and
\* the weights.
C19_FailedSetterChangesNothing ==
    [][(calls' = calls + 1 /\ raised' = "ValueError") =>
          UNCHANGED <<schedule, particles, ess_threshold, kernel_samples,
                      resample_end_2_3, samples, samples_log_pdf,
                      weights>>]_vars

C19_Witness ==
    /\ lastOp = "set_ess_threshold"
    /\ raised = "ValueError"
    /\ VLess(Fin(particles), lastArg)
    /\ ess_threshold = Rat(DefaultParticles, 2)
    /\ schedule = <<0, 5000, 10000>>

====
